---------------------------- MODULE Spec2Model ----------------------------
(***************************************************************************)
(* Subtitle timing engine of Clipify (scripts/create_interactive_subtitles *)
(* .py): the timestamp codec, parse_srt_file, the window clipping loop,    *)
(* create_subtitle_clip, create_word_highlighting_clips and the clip list  *)
(* that add_interactive_subtitles_with_timing hands to CompositeVideoClip. *)
(*                                                                         *)
(* Strings are sequences of one-character strings.  A file is a sequence   *)
(* of lines (the text between two "\n").  All times are integers in        *)
(* milliseconds; a time computed by a division is an exact rational, a     *)
(* record [n |-> numerator, d |-> denominator] with d > 0.                 *)
(*                                                                         *)
(* Spec      : one call of add_interactive_subtitles_with_timing           *)
(* SpecParse : parse_srt_file on files written from block descriptions     *)
(* SpecClips : create_subtitle_clip and create_word_highlighting_clips     *)
(*             called directly, also with end <= start and without words   *)
(***************************************************************************)
EXTENDS Integers, Sequences, FiniteSets, TLC

VARIABLES
    pc,              \* position in add_interactive_subtitles_with_timing
    clip_data,       \* the loaded .clip.json: [start |-> Str, end |-> Str]
    clip_start,      \* decoded window start (ms)
    clip_end,        \* decoded window end (ms)
    video_duration,  \* video.duration (ms)
    all_subtitles,   \* result of parse_srt_file
    clip_subtitles,  \* entries kept by the window clipping loop
    subtitle_clips,  \* the clip list built for CompositeVideoClip
    filter_pos,      \* entries of all_subtitles the clipping loop has visited
    outcome,         \* how the call ended
    srt,             \* content of the .srt file: its lines
    track,           \* the blocks the .srt file was written from (not read by the code)
    call,            \* arguments of a direct call of a segmenter function
    ret              \* [fn |-> function called, clips |-> what it returned]

vars == <<pc, clip_data, clip_start, clip_end, video_duration, all_subtitles,
          filter_pos, clip_subtitles, subtitle_clips, outcome, srt, track, call, ret>>

---------------------------------------------------------------------------
(* Characters and Python's str / re primitives.                            *)

Digits == {"0", "1", "2", "3", "4", "5", "6", "7", "8", "9"}

DigitVal(c) ==
    CASE c = "0" -> 0 [] c = "1" -> 1 [] c = "2" -> 2 [] c = "3" -> 3
      [] c = "4" -> 4 [] c = "5" -> 5 [] c = "6" -> 6 [] c = "7" -> 7
      [] c = "8" -> 8 [] c = "9" -> 9

Whitespace == {" ", "\t"}

IsSpace(c) == c \in Whitespace

IsDigit(c) == c \in Digits

SetMin(S) == CHOOSE x \in S : \A y \in S : x <= y

SetMax(S) == CHOOSE x \in S : \A y \in S : x >= y

\* str.strip(): drop leading and trailing whitespace.
Strip(s) ==
    LET keep == {i \in 1..Len(s) : ~IsSpace(s[i])}
    IN  IF keep = {} THEN <<>> ELSE SubSeq(s, SetMin(keep), SetMax(keep))

\* str.lstrip() / str.rstrip(), the two halves of strip().
LStrip(s) ==
    LET keep == {i \in 1..Len(s) : ~IsSpace(s[i])}
    IN  IF keep = {} THEN <<>> ELSE SubSeq(s, SetMin(keep), Len(s))

RStrip(s) ==
    LET keep == {i \in 1..Len(s) : ~IsSpace(s[i])}
    IN  IF keep = {} THEN <<>> ELSE SubSeq(s, 1, SetMax(keep))

\* str.split(sep) for a one-character separator: the pieces between the
\* separators, empty pieces kept; always at least one piece.
RECURSIVE SplitOnFrom(_, _, _, _)
SplitOnFrom(s, sep, i, cur) ==
    IF i > Len(s) THEN <<cur>>
    ELSE IF s[i] = sep THEN <<cur>> \o SplitOnFrom(s, sep, i + 1, <<>>)
    ELSE SplitOnFrom(s, sep, i + 1, Append(cur, s[i]))

SplitOn(s, sep) == SplitOnFrom(s, sep, 1, <<>>)

\* str.split() without argument: the maximal runs of non-whitespace, in
\* order; no empty piece, so an all-whitespace string gives <<>>.
RECURSIVE SplitWordsFrom(_, _, _)
SplitWordsFrom(s, i, cur) ==
    IF i > Len(s) THEN (IF cur = <<>> THEN <<>> ELSE <<cur>>)
    ELSE IF IsSpace(s[i])
         THEN (IF cur = <<>> THEN <<>> ELSE <<cur>>) \o SplitWordsFrom(s, i + 1, <<>>)
         ELSE SplitWordsFrom(s, i + 1, Append(cur, s[i]))

SplitWords(s) == SplitWordsFrom(s, 1, <<>>)

\* sep.join(parts)
RECURSIVE Join(_, _)
Join(parts, sep) ==
    IF parts = <<>> THEN <<>>
    ELSE IF Len(parts) = 1 THEN parts[1]
    ELSE parts[1] \o sep \o Join(Tail(parts), sep)

RECURSIVE DigitsValue(_)
DigitsValue(s) ==
    IF s = <<>> THEN 0
    ELSE 10 * DigitsValue(SubSeq(s, 1, Len(s) - 1)) + DigitVal(s[Len(s)])

\* int(s): surrounding whitespace is ignored, one leading "-" is a sign, the
\* rest must be one or more digits; anything else raises ValueError.
ParseInt(s) ==
    LET t    == Strip(s)
        neg  == t # <<>> /\ t[1] = "-"
        body == IF neg THEN Tail(t) ELSE t
    IN  IF body # <<>> /\ \A i \in 1..Len(body) : IsDigit(body[i])
        THEN [ok |-> TRUE, val |-> IF neg THEN 0 - DigitsValue(body) ELSE DigitsValue(body)]
        ELSE [ok |-> FALSE, val |-> 0]

---------------------------------------------------------------------------
(* Timestamp codec.                                                        *)

\* timestamp_to_seconds: "HH:MM:SS,mmm" -> h*3600 + m*60 + s + ms/1000.0,
\* here in milliseconds.  The two tuple unpackings need exactly two pieces
\* around "," and exactly three around ":".
timestamp_to_seconds(timestamp) ==
    LET halves == SplitOn(timestamp, ",")
        hms    == IF Len(halves) = 2 THEN SplitOn(halves[1], ":") ELSE <<>>
        h      == IF Len(hms) = 3 THEN ParseInt(hms[1]) ELSE [ok |-> FALSE, val |-> 0]
        m      == IF Len(hms) = 3 THEN ParseInt(hms[2]) ELSE [ok |-> FALSE, val |-> 0]
        s      == IF Len(hms) = 3 THEN ParseInt(hms[3]) ELSE [ok |-> FALSE, val |-> 0]
        ms     == IF Len(halves) = 2 THEN ParseInt(halves[2]) ELSE [ok |-> FALSE, val |-> 0]
    IN  IF h.ok /\ m.ok /\ s.ok /\ ms.ok
        THEN [ok |-> TRUE, val |-> (h.val * 3600 + m.val * 60 + s.val) * 1000 + ms.val]
        ELSE [ok |-> FALSE, val |-> 0]

\* time_to_seconds (nested in add_interactive_subtitles_with_timing):
\* "HH:MM:SS" -> h*3600 + m*60 + s, here in milliseconds.
time_to_seconds(time_str) ==
    LET parts == SplitOn(time_str, ":")
        h     == IF Len(parts) = 3 THEN ParseInt(parts[1]) ELSE [ok |-> FALSE, val |-> 0]
        m     == IF Len(parts) = 3 THEN ParseInt(parts[2]) ELSE [ok |-> FALSE, val |-> 0]
        s     == IF Len(parts) = 3 THEN ParseInt(parts[3]) ELSE [ok |-> FALSE, val |-> 0]
    IN  IF h.ok /\ m.ok /\ s.ok
        THEN [ok |-> TRUE, val |-> (h.val * 3600 + m.val * 60 + s.val) * 1000]
        ELSE [ok |-> FALSE, val |-> 0]

---------------------------------------------------------------------------
(* Transcript parser.                                                      *)

\* \d{2}:\d{2}:\d{2},\d{3} matched at position i of s.
TimecodeAt(s, i) ==
    /\ i + 11 <= Len(s)
    /\ \A k \in {0, 1, 3, 4, 6, 7, 9, 10, 11} : IsDigit(s[i + k])
    /\ s[i + 2] = ":"
    /\ s[i + 5] = ":"
    /\ s[i + 8] = ","

\* \s* from position i: the first position that holds no whitespace.
SkipSpaces(s, i) ==
    SetMin({j \in i..(Len(s) + 1) : j = Len(s) + 1 \/ ~IsSpace(s[j])})

\* re.match(r'(\d{2}:\d{2}:\d{2},\d{3})\s*-->\s*(\d{2}:\d{2}:\d{2},\d{3})', line):
\* anchored at the start of the line only; text after the second timecode
\* is allowed.
MatchTimestampLine(line) ==
    IF ~TimecodeAt(line, 1) THEN [ok |-> FALSE, g1 |-> <<>>, g2 |-> <<>>]
    ELSE LET a == SkipSpaces(line, 13)
             b == SkipSpaces(line, a + 3)
         IN  IF /\ a + 2 <= Len(line)
                /\ line[a] = "-" /\ line[a + 1] = "-" /\ line[a + 2] = ">"
                /\ TimecodeAt(line, b)
             THEN [ok |-> TRUE, g1 |-> SubSeq(line, 1, 12), g2 |-> SubSeq(line, b, b + 11)]
             ELSE [ok |-> FALSE, g1 |-> <<>>, g2 |-> <<>>]

IsBlankLine(line) == \A i \in 1..Len(line) : IsSpace(line[i])

\* block.strip().split('\n') for the lines of one block: the whitespace
\* before its first line's text and after its last line's text is dropped.
StripBlock(lines) ==
    [i \in 1..Len(lines) |->
        LET l == IF i = 1 THEN LStrip(lines[i]) ELSE lines[i]
        IN  IF i = Len(lines) THEN RStrip(l) ELSE l]

\* re.split(r'\n\s*\n', content.strip()): a separator is a line break, any
\* whitespace (line breaks included) and a line break, so the blocks are the
\* maximal runs of lines that are not all whitespace.
RECURSIVE SplitBlocksFrom(_, _, _)
SplitBlocksFrom(lines, i, cur) ==
    IF i > Len(lines) THEN (IF cur = <<>> THEN <<>> ELSE <<cur>>)
    ELSE IF IsBlankLine(lines[i])
         THEN (IF cur = <<>> THEN <<>> ELSE <<cur>>) \o SplitBlocksFrom(lines, i + 1, <<>>)
         ELSE SplitBlocksFrom(lines, i + 1, Append(cur, lines[i]))

\* The stripped lines of every block; content without any text is the one
\* block [''].
SplitBlocks(content) ==
    LET runs == SplitBlocksFrom(content, 1, <<>>)
    IN  IF runs = <<>> THEN << << <<>> >> >>
        ELSE [k \in 1..Len(runs) |-> StripBlock(runs[k])]

\* if len(lines) >= 3 -- with the mutant that accepts a block of two lines.
HasBlockLines_Two(lines) == Len(lines) >= 2

HasBlockLines(lines) == Len(lines) >= 3

\* One iteration of the loop over blocks: the entry appended, if any.
\* [ok |-> FALSE] stands for an exception raised inside the loop.
ParseBlock(lines) ==
    IF HasBlockLines(lines)
    THEN LET match == MatchTimestampLine(lines[2])
         IN  IF match.ok
             THEN LET text          == Strip(Join(SubSeq(lines, 3, Len(lines)), <<" ">>))
                      start_seconds == timestamp_to_seconds(match.g1)
                      end_seconds   == timestamp_to_seconds(match.g2)
                  IN  IF start_seconds.ok /\ end_seconds.ok
                      THEN [ok |-> TRUE,
                            add |-> << [start |-> start_seconds.val,
                                        end   |-> end_seconds.val,
                                        text  |-> text] >>]
                      ELSE [ok |-> FALSE, add |-> <<>>]
             ELSE [ok |-> TRUE, add |-> <<>>]
    ELSE [ok |-> TRUE, add |-> <<>>]

RECURSIVE ParseBlocks(_)
ParseBlocks(blocks) ==
    IF blocks = <<>> THEN [ok |-> TRUE, subs |-> <<>>]
    ELSE LET first == ParseBlock(Head(blocks))
             rest  == ParseBlocks(Tail(blocks))
         IN  [ok |-> first.ok /\ rest.ok, subs |-> first.add \o rest.subs]

\* parse_srt_file: the entries in block order; any exception gives [].
parse_srt_file(content) ==
    LET r == ParseBlocks(SplitBlocks(content))
    IN  IF r.ok THEN r.subs ELSE <<>>

---------------------------------------------------------------------------
(* Exact rationals for the times the segmenters compute by division.       *)

Rat(n, d) == [n |-> n, d |-> d]

RatLT(a, b) == a.n * b.d < b.n * a.d

RatLE(a, b) == a.n * b.d <= b.n * a.d

RatEq(a, b) == a.n * b.d = b.n * a.d

RatAdd(a, b) == Rat(a.n * b.d + b.n * a.d, a.d * b.d)

RatSub(a, b) == Rat(a.n * b.d - b.n * a.d, a.d * b.d)

RatMin(a, b) == IF RatLE(a, b) THEN a ELSE b

\* A clip after set_duration(d).set_start(t): MoviePy keeps start and
\* duration and derives end = start + duration.
ClipEnd(c) == RatAdd(c.start, c.duration)

---------------------------------------------------------------------------
(* Caption segmenter and word highlighter.                                 *)

max_words == 5

\* words[i : i + max_words] for a 0-based i, with the mutant that slices one
\* word short.
ChunkWords_OneShort(words, i) ==
    SubSeq(words, i + 1,
           IF i + max_words - 1 < Len(words) THEN i + max_words - 1 ELSE Len(words))

ChunkWords(words, i) ==
    SubSeq(words, i + 1, IF i + max_words < Len(words) THEN i + max_words ELSE Len(words))

\* range(0, len(words), max_words), as a sequence.
ChunkStarts(words) ==
    [k \in 1..((Len(words) + max_words - 1) \div max_words) |-> (k - 1) * max_words]

\* chunk_duration = duration * len(chunk_words) / len(words), with the
\* mutant that gives every chunk a full chunk's share.
chunk_duration_FullShare(duration, chunk_words, words) ==
    Rat(duration * max_words, Len(words))

chunk_duration(duration, chunk_words, words) ==
    Rat(duration * Len(chunk_words), Len(words))

\* chunk_start = start_time + (duration * i / len(words)) -- with the mutant
\* that leaves out start_time.
chunk_start_FromZero(start_time, duration, i, words) == Rat(duration * i, Len(words))

chunk_start(start_time, duration, i, words) ==
    RatAdd(Rat(start_time, 1), Rat(duration * i, Len(words)))

\* create_subtitle_clip(text, start_time, end_time, video_size): the caption
\* clips of one entry (video_size only sets font size and position).
create_subtitle_clip(text, start_time, end_time) ==
    LET duration == end_time - start_time
        words    == SplitWords(text)
    IN  IF Len(words) > max_words
        THEN LET starts == ChunkStarts(words)
             IN  [k \in 1..Len(starts) |->
                    LET i           == starts[k]
                        chunk_words == ChunkWords(words, i)
                    IN  [layer    |-> "caption",
                         text     |-> Join(chunk_words, <<" ">>),
                         duration |-> chunk_duration(duration, chunk_words, words),
                         start    |-> chunk_start(start_time, duration, i, words)]]
        ELSE << [layer    |-> "caption",
                 text     |-> Join(words, <<" ">>),
                 duration |-> Rat(duration, 1),
                 start    |-> Rat(start_time, 1)] >>

\* time_per_word = duration / len(words) -- with the mutant that divides by
\* one more than the number of words.
time_per_word_OneMore(duration, words) == Rat(duration, Len(words) + 1)

time_per_word(duration, words) == Rat(duration, Len(words))

\* word_start = start_time + (i * time_per_word)
word_start(start_time, i, tpw) == RatAdd(Rat(start_time, 1), Rat(i * tpw.n, tpw.d))

\* word_end = min(start_time + ((i + 1) * time_per_word), end_time)
word_end(start_time, end_time, i, tpw) ==
    RatMin(RatAdd(Rat(start_time, 1), Rat((i + 1) * tpw.n, tpw.d)), Rat(end_time, 1))

\* The highlight clip of word i (0-based) before the duration check.
WordClip(words, i, start_time, end_time) ==
    LET tpw == time_per_word(end_time - start_time, words)
        ws  == word_start(start_time, i, tpw)
        we  == word_end(start_time, end_time, i, tpw)
    IN  [layer    |-> "highlight",
         text     |-> words[i + 1],
         duration |-> RatSub(we, ws),
         start    |-> ws]

\* if word_duration <= 0: continue -- with the mutant that keeps every word.
WordKept_Always(c) == TRUE

WordKept(c) == c.duration.n > 0

\* create_word_highlighting_clips(text, start_time, end_time, video_size)
create_word_highlighting_clips(text, start_time, end_time) ==
    LET words == SplitWords(text)
    IN  IF words = <<>> THEN <<>>
        ELSE SelectSeq([k \in 1..Len(words) |-> WordClip(words, k - 1, start_time, end_time)],
                       WordKept)

---------------------------------------------------------------------------
(* Direct calls of the two segmenter functions on bounded arguments.       *)

MaxWords == 11

MaxTick == 3

Letters == <<"a", "b", "c", "d", "e", "f", "g", "h", "i", "j", "k", "l", "m", "n">>

\* The i-th word of a generated text; all words differ.
Word(i) ==
    LET c == Letters[((i - 1) % Len(Letters)) + 1]
    IN  IF i % 2 = 0 THEN <<c, c>> ELSE <<c>>

WordList(n) == [i \in 1..n |-> Word(i)]

\* A text of n words: single spaces, or irregular whitespace all around.
TextOfWords(n, padded) ==
    IF padded THEN <<" ">> \o Join(WordList(n), <<" ", "\t">>) \o <<" ">>
    ELSE Join(WordList(n), <<" ">>)

NoCall == [text |-> <<>>, words |-> <<>>, start_time |-> 0, end_time |-> 0]

NoRet == [fn |-> "none", clips |-> <<>>]

\* call.words is the word list the text was generated from; the functions
\* read call.text only.
CallArgs ==
    {[text |-> TextOfWords(n, p), words |-> WordList(n),
      start_time |-> 1000 * a, end_time |-> 1000 * b] :
        n \in 0..MaxWords, p \in BOOLEAN, a \in 0..MaxTick, b \in 0..MaxTick}

PipelineIdle ==
    /\ clip_data = [start |-> <<>>, end |-> <<>>]
    /\ clip_start = 0
    /\ clip_end = 0
    /\ video_duration = 0
    /\ all_subtitles = <<>>
    /\ clip_subtitles = <<>>
    /\ subtitle_clips = <<>>
    /\ filter_pos = 0
    /\ outcome = "none"
    /\ srt = <<>>
    /\ track = <<>>

InitClips ==
    /\ pc = "args"
    /\ call \in CallArgs
    /\ ret = NoRet
    /\ PipelineIdle

CallSubtitleClip ==
    /\ pc = "args"
    /\ pc' = "returned"
    /\ ret' = [fn |-> "create_subtitle_clip",
               clips |-> create_subtitle_clip(call.text, call.start_time, call.end_time)]
    /\ UNCHANGED <<clip_data, clip_start, clip_end, video_duration, all_subtitles,
                   filter_pos, clip_subtitles, subtitle_clips, outcome, srt, track, call>>

CallWordHighlighting ==
    /\ pc = "args"
    /\ pc' = "returned"
    /\ ret' = [fn |-> "create_word_highlighting_clips",
               clips |-> create_word_highlighting_clips(call.text, call.start_time,
                                                        call.end_time)]
    /\ UNCHANGED <<clip_data, clip_start, clip_end, video_duration, all_subtitles,
                   filter_pos, clip_subtitles, subtitle_clips, outcome, srt, track, call>>

NextClips == CallSubtitleClip \/ CallWordHighlighting

SpecClips == InitClips /\ [][NextClips]_vars

---------------------------------------------------------------------------
(* The window clipping loop and the clip list of                           *)
(* add_interactive_subtitles_with_timing.                                  *)

Max2(a, b) == IF a >= b THEN a ELSE b

Min2(a, b) == IF a <= b THEN a ELSE b

\* if sub['end'] > clip_start and sub['start'] < clip_end -- with the mutant
\* that asks for the entry to lie inside the window.
Overlaps_Contained(sub, cs, ce) == sub.start >= cs /\ sub.end <= ce

Overlaps(sub, cs, ce) == sub.end > cs /\ sub.start < ce

\* adjusted_start = max(0, sub['start'] - clip_start)
adjusted_start(sub, cs) == Max2(0, sub.start - cs)

\* adjusted_end = min(clip_duration, sub['end'] - clip_start) -- with the
\* mutant that does not clamp to the window.
adjusted_end_Unclamped(sub, cs, clip_duration) == sub.end - cs

adjusted_end(sub, cs, clip_duration) == Min2(clip_duration, sub.end - cs)

\* if adjusted_end > adjusted_start and adjusted_end > 0
Meaningful(as, ae) == ae > as /\ ae > 0

\* One iteration of the clipping loop: what it appends to clip_subtitles.
ClipEntry(sub, cs, ce) ==
    IF Overlaps(sub, cs, ce)
    THEN LET as == adjusted_start(sub, cs)
             ae == adjusted_end(sub, cs, ce - cs)
         IN  IF Meaningful(as, ae)
             THEN << [start |-> as, end |-> ae, text |-> sub.text] >>
             ELSE <<>>
    ELSE <<>>

\* if sub['start'] < video.duration and sub['end'] <= video.duration -- with
\* the mutant that only asks for the entry to start within the video.
FitsVideo_StartOnly(sub, vd) == sub.start < vd

FitsVideo(sub, vd) == sub.start < vd /\ sub.end <= vd

\* What one entry adds to subtitle_clips: its caption clips, then its word
\* highlighting clips -- with the mutant that adds them the other way round.
EntryClips_HighlightsFirst(sub) ==
    create_word_highlighting_clips(sub.text, sub.start, sub.end)
        \o create_subtitle_clip(sub.text, sub.start, sub.end)

EntryClips(sub) ==
    create_subtitle_clip(sub.text, sub.start, sub.end)
        \o create_word_highlighting_clips(sub.text, sub.start, sub.end)

\* The loop that builds subtitle_clips.
RECURSIVE BuildClips(_, _)
BuildClips(subs, vd) ==
    IF subs = <<>> THEN <<>>
    ELSE (IF FitsVideo(Head(subs), vd) THEN EntryClips(Head(subs)) ELSE <<>>)
             \o BuildClips(Tail(subs), vd)

\* if not subtitle_clips: write the video without subtitles and return;
\* else composite -- with the mutant that always composites.
FinalOutcome_AlwaysComposite(clips) == "composited"

FinalOutcome(clips) == IF clips = <<>> THEN "without_subtitles" ELSE "composited"

---------------------------------------------------------------------------
(* Subtitle tracks as files: how the .srt inputs are written.  A track is  *)
(* a sequence of block descriptions [kind, a, b, textlines]; a and b are   *)
(* the block's times in milliseconds.                                      *)

DigitChar(d) == <<"0", "1", "2", "3", "4", "5", "6", "7", "8", "9">>[d + 1]

TwoDigits(n) == <<DigitChar((n \div 10) % 10), DigitChar(n % 10)>>

ThreeDigits(n) == <<DigitChar((n \div 100) % 10), DigitChar((n \div 10) % 10), DigitChar(n % 10)>>

\* HH:MM:SS of a number of seconds
ClockText(sec) ==
    TwoDigits(sec \div 3600) \o <<":">> \o TwoDigits((sec \div 60) % 60)
        \o <<":">> \o TwoDigits(sec % 60)

\* HH:MM:SS,mmm of a number of milliseconds
SrtTimeText(ms) == ClockText(ms \div 1000) \o <<",">> \o ThreeDigits(ms % 1000)

Arrow == <<" ", "-", "-", ">", " ">>

TimestampLineText(a, b) == SrtTimeText(a) \o Arrow \o SrtTimeText(b)

OrdinalLine == <<"1">>

\* The kinds of block whose second line the parser's pattern matches and
\* that have a third line.
MatchingKinds == {"valid", "trailing"}

BlockText(d) ==
    CASE d.kind = "valid"        -> <<OrdinalLine, TimestampLineText(d.a, d.b)>> \o d.textlines
      [] d.kind = "trailing"     -> <<OrdinalLine, TimestampLineText(d.a, d.b) \o <<" ", "x">> >>
                                        \o d.textlines
      [] d.kind = "two_lines"    -> <<OrdinalLine, TimestampLineText(d.a, d.b)>>
      [] d.kind = "ordinal_only" -> <<OrdinalLine>>
      [] d.kind = "short_hour"   -> <<OrdinalLine, Tail(TimestampLineText(d.a, d.b))>> \o d.textlines
      [] d.kind = "no_millis"    -> <<OrdinalLine,
                                      ClockText(d.a \div 1000) \o Arrow \o ClockText(d.b \div 1000)>>
                                        \o d.textlines
      [] d.kind = "indented"     -> <<OrdinalLine, <<" ">> \o TimestampLineText(d.a, d.b)>>
                                        \o d.textlines
      [] d.kind = "no_ordinal"   -> <<TimestampLineText(d.a, d.b)>> \o d.textlines

\* How the blocks are set apart: the lines before the first block, between
\* two blocks and after the last one.
Layouts ==
    { [lead |-> <<>>, gap |-> << <<>> >>, trail |-> <<>>],
      [lead |-> << <<>> >>, gap |-> << <<" ">> >>, trail |-> << <<>> >>],
      [lead |-> <<>>, gap |-> << <<>>, <<"\t">> >>, trail |-> << <<" ">> >>] }

RECURSIVE JoinBlocks(_, _)
JoinBlocks(ds, gap) ==
    IF ds = <<>> THEN <<>>
    ELSE IF Len(ds) = 1 THEN BlockText(ds[1])
    ELSE BlockText(ds[1]) \o gap \o JoinBlocks(Tail(ds), gap)

TrackText(ds, layout) == layout.lead \o JoinBlocks(ds, layout.gap) \o layout.trail

TwoWordLines == << TextOfWords(2, FALSE) >>

SixWordLines ==
    << Join(SubSeq(WordList(6), 1, 3), <<" ">>), Join(SubSeq(WordList(6), 4, 6), <<" ">>) >>

Desc(kind, a, b, textlines) == [kind |-> kind, a |-> a, b |-> b, textlines |-> textlines]

SeqsUpTo(S, n) == UNION {[1..k -> S] : k \in 0..n}

---------------------------------------------------------------------------
(* parse_srt_file on bounded files.                                        *)

MaxBlocks == 3

ParserBlocks ==
    {Desc("valid", 0, 1500, TwoWordLines),
     Desc("valid", 2000, 3500, SixWordLines),
     Desc("valid", 3000, 1000, TwoWordLines),
     Desc("trailing", 1000, 2000, TwoWordLines)}
    \cup {Desc(k, 1000, 2000, TwoWordLines) :
            k \in {"two_lines", "ordinal_only", "short_hour", "no_millis", "indented"}}
    \cup {Desc("no_ordinal", 1000, 2000, SixWordLines)}

InitParse ==
    /\ pc = "file"
    /\ track \in SeqsUpTo(ParserBlocks, MaxBlocks)
    /\ \E layout \in Layouts : srt = TrackText(track, layout)
    /\ clip_data = [start |-> <<>>, end |-> <<>>]
    /\ clip_start = 0
    /\ clip_end = 0
    /\ video_duration = 0
    /\ all_subtitles = <<>>
    /\ filter_pos = 0
    /\ clip_subtitles = <<>>
    /\ subtitle_clips = <<>>
    /\ outcome = "none"
    /\ call = NoCall
    /\ ret = NoRet

ParseFile ==
    /\ pc = "file"
    /\ pc' = "parsed"
    /\ all_subtitles' = parse_srt_file(srt)
    /\ UNCHANGED <<clip_data, clip_start, clip_end, video_duration, filter_pos,
                   clip_subtitles, subtitle_clips, outcome, srt, track, call, ret>>

NextParse == ParseFile

SpecParse == InitParse /\ [][NextParse]_vars

---------------------------------------------------------------------------
(* add_interactive_subtitles_with_timing on bounded inputs.                *)

MaxSec == 3

MaxEntries == 2

\* .clip.json files: every pair of whole seconds, and two files whose times
\* time_to_seconds cannot decode.
\* The worked example of the design: one block 00:00:02,000 --> 00:00:06,000
\* and the window 00:00:00 to 00:00:10.
ScenarioText ==
    <<"T", "h", "i", "s", " ", "i", "s", " ", "a", " ", "t", "e", "s", "t", " ", "s", "e", "n", "t", "e", "n", "c", "e",
      " ", "h", "e", "r", "e">>

ScenarioBlock == Desc("valid", 2000, 6000, <<ScenarioText>>)

ScenarioClipFile == [start |-> ClockText(0), end |-> ClockText(10)]

ClipFiles ==
    {[start |-> ClockText(a), end |-> ClockText(b)] : a, b \in 0..MaxSec}
    \cup {[start |-> <<"0", "0", ":", "0", "1">>, end |-> ClockText(MaxSec)],
          [start |-> ClockText(0), end |-> <<"0", "0", ":", "0", "0", ":", "0", "x">>]}
    \cup {ScenarioClipFile}

VideoDurations == {1500, 1000 * MaxSec, 10000}

LeadBlocks ==
    {Desc("valid", 1000 * a, 1000 * b, t) :
        a \in 0..MaxSec, b \in 0..MaxSec, t \in {TwoWordLines, SixWordLines}}
    \cup {Desc("two_lines", 0, 1000, <<>>), Desc("short_hour", 0, 1000, TwoWordLines)}
    \cup {ScenarioBlock}

FollowBlocks ==
    {Desc("valid", 0, 3000, SixWordLines),
     Desc("valid", 0, 1000, TwoWordLines),
     Desc("short_hour", 0, 1000, TwoWordLines)}

\* The empty file, and files of one to MaxEntries blocks.
PipelineTracks ==
    {<<>>} \cup {<<l>> \o f : l \in LeadBlocks, f \in SeqsUpTo(FollowBlocks, MaxEntries - 1)}

PlainLayout == [lead |-> <<>>, gap |-> << <<>> >>, trail |-> <<>>]

Init ==
    /\ pc = "load_clip"
    /\ clip_data \in ClipFiles
    /\ clip_start = 0
    /\ clip_end = 0
    /\ video_duration = 0
    /\ all_subtitles = <<>>
    /\ filter_pos = 0
    /\ clip_subtitles = <<>>
    /\ subtitle_clips = <<>>
    /\ outcome = "none"
    /\ srt = <<>>
    /\ track = <<>>
    /\ call = NoCall
    /\ ret = NoRet

\* Lines 166-186: decode the window, load the video.  A time that does not
\* decode raises; the except clause re-raises to the caller.
LoadClip ==
    /\ pc = "load_clip"
    /\ LET s == time_to_seconds(clip_data.start)
           e == time_to_seconds(clip_data.end)
       IN  IF s.ok /\ e.ok
           THEN /\ clip_start' = s.val
                /\ clip_end' = e.val
                /\ video_duration' \in VideoDurations
                /\ pc' = "parse"
                /\ outcome' = outcome
           ELSE /\ pc' = "done"
                /\ outcome' = "error"
                /\ UNCHANGED <<clip_start, clip_end, video_duration>>
    /\ UNCHANGED <<clip_data, all_subtitles, filter_pos, clip_subtitles, subtitle_clips,
                   srt, track, call, ret>>

\* Lines 188-196: parse the .srt file; without entries the video is written
\* without subtitles and the call returns.
ParseSubtitles ==
    /\ pc = "parse"
    /\ \E t \in PipelineTracks :
         /\ track' = t
         /\ srt' = TrackText(t, PlainLayout)
    /\ all_subtitles' = parse_srt_file(srt')
    /\ IF all_subtitles' = <<>>
       THEN pc' = "done" /\ outcome' = "without_subtitles"
       ELSE pc' = "filter" /\ outcome' = outcome
    /\ UNCHANGED <<clip_data, clip_start, clip_end, video_duration, filter_pos,
                   clip_subtitles, subtitle_clips, call, ret>>

\* Lines 200-213: one iteration of the window clipping loop.
FilterStep ==
    /\ pc = "filter"
    /\ filter_pos < Len(all_subtitles)
    /\ clip_subtitles' =
         clip_subtitles \o ClipEntry(all_subtitles[filter_pos + 1], clip_start, clip_end)
    /\ filter_pos' = filter_pos + 1
    /\ UNCHANGED <<pc, clip_data, clip_start, clip_end, video_duration, all_subtitles,
                   subtitle_clips, outcome, srt, track, call, ret>>

\* Lines 217-258: build the clip list; composite it, or write the video
\* without subtitles when the list is empty.
CreateClips ==
    /\ pc = "filter"
    /\ filter_pos = Len(all_subtitles)
    /\ subtitle_clips' = BuildClips(clip_subtitles, video_duration)
    /\ outcome' = FinalOutcome(subtitle_clips')
    /\ pc' = "done"
    /\ UNCHANGED <<clip_data, clip_start, clip_end, video_duration, all_subtitles,
                   filter_pos, clip_subtitles, srt, track, call, ret>>

Next == LoadClip \/ ParseSubtitles \/ FilterStep \/ CreateClips

Spec == Init /\ [][Next]_vars

---------------------------------------------------------------------------
(* The two decoders on bounded strings.  A string is written from fields   *)
(* joined by ":", for the track format followed by "," and a field for     *)
(* each element of tail.  Each field states whether int() takes it and the *)
(* number it then gives; the decoders read call.text only.                 *)

MaxFields == 4

Field(chars, numeric, value) == [chars |-> chars, numeric |-> numeric, value |-> value]

ClockFields ==
    {Field(<<>>, FALSE, 0),
     Field(<<"5">>, TRUE, 5),
     Field(<<"0", "7">>, TRUE, 7),
     Field(<<"1", "2">>, TRUE, 12),
     Field(<<"x", "7">>, FALSE, 0),
     Field(<<"-", "1">>, TRUE, 0 - 1)}

MillisTails ==
    {<<>>,
     << Field(<<"5", "0", "0">>, TRUE, 500) >>,
     << Field(<<"5">>, TRUE, 5) >>,
     << Field(<<"x">>, FALSE, 0) >>,
     << Field(<<"5", "0", "0">>, TRUE, 500), Field(<<"5">>, TRUE, 5) >>}

RECURSIVE TailText(_)
TailText(tail) ==
    IF tail = <<>> THEN <<>> ELSE <<",">> \o Head(tail).chars \o TailText(Tail(tail))

TimeText(fields, tail) ==
    Join([i \in 1..Len(fields) |-> fields[i].chars], <<":">>) \o TailText(tail)

CodecArgs ==
    {[fmt |-> "window", fields |-> f, tail |-> <<>>, text |-> TimeText(f, <<>>)] :
        f \in SeqsUpTo(ClockFields, MaxFields) \ {<<>>}}
    \cup {[fmt |-> "track", fields |-> f, tail |-> t, text |-> TimeText(f, t)] :
            f \in SeqsUpTo(ClockFields, MaxFields) \ {<<>>}, t \in MillisTails}

InitCodec ==
    /\ pc = "codec"
    /\ call \in CodecArgs
    /\ ret = NoRet
    /\ PipelineIdle

\* time_to_seconds(call.text): a number, or an exception (ok = FALSE).
DecodeWindow ==
    /\ pc = "codec"
    /\ call.fmt = "window"
    /\ pc' = "returned"
    /\ LET r == time_to_seconds(call.text)
       IN  ret' = [fn |-> "time_to_seconds", clips |-> <<>>, ok |-> r.ok, val |-> r.val]
    /\ UNCHANGED <<clip_data, clip_start, clip_end, video_duration, all_subtitles,
                   filter_pos, clip_subtitles, subtitle_clips, outcome, srt, track, call>>

\* timestamp_to_seconds(call.text)
DecodeTrack ==
    /\ pc = "codec"
    /\ call.fmt = "track"
    /\ pc' = "returned"
    /\ LET r == timestamp_to_seconds(call.text)
       IN  ret' = [fn |-> "timestamp_to_seconds", clips |-> <<>>, ok |-> r.ok, val |-> r.val]
    /\ UNCHANGED <<clip_data, clip_start, clip_end, video_duration, all_subtitles,
                   filter_pos, clip_subtitles, subtitle_clips, outcome, srt, track, call>>

NextCodec == DecodeWindow \/ DecodeTrack

SpecCodec == InitCodec /\ [][NextCodec]_vars

---------------------------------------------------------------------------
(* suggest_clip.py: the stage that writes the .clip.json file the subtitle *)
(* stage reads.  Its times are whole seconds.                              *)

\* convert_time_to_seconds(time_str): three fields are hours, minutes and
\* seconds, two are minutes and seconds, any other number of fields gives
\* int() of the first one.
convert_time_to_seconds(time_str) ==
    LET parts == SplitOn(time_str, ":")
        n(i) == ParseInt(parts[i])
    IN  IF Len(parts) = 3
        THEN IF n(1).ok /\ n(2).ok /\ n(3).ok
             THEN [ok |-> TRUE, val |-> n(1).val * 3600 + n(2).val * 60 + n(3).val]
             ELSE [ok |-> FALSE, val |-> 0]
        ELSE IF Len(parts) = 2
        THEN IF n(1).ok /\ n(2).ok
             THEN [ok |-> TRUE, val |-> n(1).val * 60 + n(2).val]
             ELSE [ok |-> FALSE, val |-> 0]
        ELSE IF n(1).ok
             THEN [ok |-> TRUE, val |-> n(1).val]
             ELSE [ok |-> FALSE, val |-> 0]

MinClipSeconds == 15

MaxClipSeconds == 120

\* validate_timestamps(start_time, end_time): ok = FALSE when a conversion
\* raises, else valid tells whether the window is accepted.
validate_timestamps(start_time, end_time) ==
    LET start_seconds == convert_time_to_seconds(start_time)
        end_seconds == convert_time_to_seconds(end_time)
        duration == end_seconds.val - start_seconds.val
    IN  IF ~(start_seconds.ok /\ end_seconds.ok)
        THEN [ok |-> FALSE, valid |-> FALSE]
        ELSE IF start_seconds.val >= end_seconds.val
        THEN [ok |-> TRUE, valid |-> FALSE]
        ELSE IF duration < MinClipSeconds
        THEN [ok |-> TRUE, valid |-> FALSE]
        ELSE IF duration > MaxClipSeconds
        THEN [ok |-> TRUE, valid |-> FALSE]
        ELSE [ok |-> TRUE, valid |-> TRUE]

\* suggestion.get("start", "00:00:00") and suggestion.get("end", "00:01:00")
DefaultStart == ClockText(0)

DefaultEnd == ClockText(60)

\* The ways a model answer writes a number of seconds.
RECURSIVE DecimalText(_)
DecimalText(n) ==
    IF n < 10 THEN <<DigitChar(n)>> ELSE DecimalText(n \div 10) \o <<DigitChar(n % 10)>>

MinSecText(sec) == TwoDigits(sec \div 60) \o <<":">> \o TwoDigits(sec % 60)

SuggestedSeconds == {0, 14, 15, 30, 120, 121}

SuggestedTimes ==
    {ClockText(t) : t \in SuggestedSeconds}
    \cup {MinSecText(t) : t \in SuggestedSeconds}
    \cup {DecimalText(t) : t \in SuggestedSeconds}
    \cup {<<"s", "o", "o", "n">>}

\* A suggestion is the JSON object of the answer: keys is the set of keys it
\* has (a reason, and the times it gives), and the field of an absent key is
\* empty.
Suggestion(keys, s, e) ==
    [keys |-> keys,
     start |-> IF "start" \in keys THEN s ELSE <<>>,
     end |-> IF "end" \in keys THEN e ELSE <<>>]

Suggestions ==
    {Suggestion(k \cup {"reason"}, s, e) : k \in SUBSET {"start", "end"},
                           s \in SuggestedTimes, e \in SuggestedTimes}

NoClipFile == [keys |-> {}, start |-> <<>>, end |-> <<>>]

InitSuggest ==
    /\ pc = "suggest"
    /\ call \in Suggestions
    /\ clip_data = NoClipFile
    /\ clip_start = 0
    /\ clip_end = 0
    /\ video_duration = 0
    /\ all_subtitles = <<>>
    /\ clip_subtitles = <<>>
    /\ subtitle_clips = <<>>
    /\ filter_pos = 0
    /\ outcome = "none"
    /\ srt = <<>>
    /\ track = <<>>
    /\ ret = NoRet

\* process_transcript_file, lines 167-187: validate the suggestion through
\* its defaults and, if valid, write the suggestion itself to the clip file.
\* An exception of the validation is caught and printed: nothing is written.
ProcessSuggestion ==
    /\ pc = "suggest"
    /\ LET start_time == IF "start" \in call.keys THEN call.start ELSE DefaultStart
           end_time == IF "end" \in call.keys THEN call.end ELSE DefaultEnd
           v == validate_timestamps(start_time, end_time)
       IN  IF ~v.ok
           THEN pc' = "failed" /\ clip_data' = clip_data
           ELSE IF v.valid
           THEN pc' = "saved" /\ clip_data' = call
           ELSE pc' = "rejected" /\ clip_data' = clip_data
    /\ UNCHANGED <<clip_start, clip_end, video_duration, all_subtitles, filter_pos,
                   clip_subtitles, subtitle_clips, outcome, srt, track, call, ret>>

\* add_interactive_subtitles_with_timing, lines 166-177, on the saved file:
\* clip_data['start'] of an absent key and a time that time_to_seconds does
\* not decode both raise.
LoadSavedClip ==
    /\ pc = "saved"
    /\ pc' = "decoded"
    /\ LET s == time_to_seconds(clip_data.start)
           e == time_to_seconds(clip_data.end)
       IN  IF /\ "start" \in clip_data.keys
              /\ "end" \in clip_data.keys
              /\ s.ok
              /\ e.ok
           THEN /\ clip_start' = s.val
                /\ clip_end' = e.val
                /\ outcome' = "loaded"
           ELSE /\ outcome' = "error"
                /\ UNCHANGED <<clip_start, clip_end>>
    /\ UNCHANGED <<clip_data, video_duration, all_subtitles, filter_pos, clip_subtitles,
                   subtitle_clips, srt, track, call, ret>>

NextSuggest == ProcessSuggestion \/ LoadSavedClip

SpecSuggest == InitSuggest /\ [][NextSuggest]_vars

---------------------------------------------------------------------------
(* Properties of the segmenter functions, checked under SpecClips.         *)

RECURSIVE SumDurations(_)
SumDurations(clips) ==
    IF clips = <<>> THEN Rat(0, 1)
    ELSE RatAdd(Head(clips).duration, SumDurations(Tail(clips)))

ReturnedFrom(fn) == pc = "returned" /\ ret.fn = fn

\* C1: for an entry with start < end and more than 5 words, the caption
\* segments of create_subtitle_clip tile the entry's interval exactly: the
\* first starts at entry.start, each later one starts where the previous one
\* ends, the last ends at entry.end, and the durations sum to end - start.
C1_CaptionsTileEntry ==
    (/\ ReturnedFrom("create_subtitle_clip")
     /\ call.start_time < call.end_time
     /\ Len(call.words) > 5)
    => LET c == ret.clips
       IN  /\ Len(c) >= 2
           /\ RatEq(c[1].start, Rat(call.start_time, 1))
           /\ \A k \in 1..(Len(c) - 1) : RatEq(ClipEnd(c[k]), c[k + 1].start)
           /\ RatEq(ClipEnd(c[Len(c)]), Rat(call.end_time, 1))
           /\ RatEq(SumDurations(c), Rat(call.end_time - call.start_time, 1))

C1_Witness ==
    /\ ReturnedFrom("create_subtitle_clip")
    /\ call.start_time < call.end_time
    /\ Len(call.words) = 11
    /\ Len(ret.clips) = 3
    /\ ret.clips[3].duration.n * 11 = (call.end_time - call.start_time) * ret.clips[3].duration.d

C5_ChunksPartitionWords ==
    (ReturnedFrom("create_subtitle_clip") /\ Len(call.words) >= 1)
    => LET n == Len(call.words)
           c == ret.clips
       IN  /\ Len(c) = (n + 4) \div 5
           /\ \A k \in 1..Len(c) :
                c[k].text = Join(SubSeq(call.words, 5 * (k - 1) + 1,
                                        IF 5 * k < n THEN 5 * k ELSE n), <<" ">>)

C5_Witness ==
    /\ ReturnedFrom("create_subtitle_clip")
    /\ Len(call.words) = 11
    /\ call.text[1] = " "
    /\ Len(ret.clips) = 3
    /\ ret.clips[3].text = Word(11)

\* C9: for a text without any word create_subtitle_clip returns no caption
\* segment at all.
C9_NoWordsNoCaption ==
    (ReturnedFrom("create_subtitle_clip") /\ call.words = <<>>)
    => ret.clips = <<>>

---------------------------------------------------------------------------
(* Properties of parse_srt_file, checked under SpecParse.                  *)

\* The blocks of the track that the claim says give an entry, in order.
EntryBlocks(ds) == SelectSeq(ds, LAMBDA d : d.kind \in MatchingKinds)

\* C10: parse_srt_file returns exactly one entry for each block that has at
\* least 3 lines and whose second line matches "<timecode> --> <timecode>",
\* in source order and not sorted by time; every other block is skipped and
\* leaves the entries of the blocks around it as they are.
C10_OneEntryPerValidBlock ==
    pc = "parsed"
    => LET want == EntryBlocks(track)
       IN  /\ Len(all_subtitles) = Len(want)
           /\ \A k \in 1..Len(want) :
                /\ all_subtitles[k].start = want[k].a
                /\ all_subtitles[k].end = want[k].b
                /\ all_subtitles[k].text = Join(want[k].textlines, <<" ">>)

C10_Witness ==
    /\ pc = "parsed"
    /\ Len(track) = 3
    /\ track[1].kind = "valid"
    /\ track[2].kind \notin MatchingKinds
    /\ track[3].kind = "valid"
    /\ track[1].a > track[3].a
    /\ Len(all_subtitles) = 2
    /\ all_subtitles[1].start > all_subtitles[2].start

---------------------------------------------------------------------------
(* Properties of add_interactive_subtitles_with_timing, checked under Spec.*)

\* Both times of the .clip.json file decode.
WindowDecodes ==
    time_to_seconds(clip_data.start).ok /\ time_to_seconds(clip_data.end).ok

\* C2: every entry the window clipping loop emits satisfies
\* 0 <= start < end <= window.duration, and is some parsed entry re-based as
\* start = max(0, entry.start - window.start),
\* end = min(window.duration, entry.end - window.start); for any window and
\* any parsed entries, out of order, overlapping or with end <= start.
C2_ClippedEntryInWindow ==
    \A k \in 1..Len(clip_subtitles) :
        LET e   == clip_subtitles[k]
            dur == clip_end - clip_start
        IN  /\ 0 <= e.start
            /\ e.start < e.end
            /\ e.end <= dur
            /\ \E i \in 1..filter_pos :
                 /\ e.text = all_subtitles[i].text
                 /\ e.start = Max2(0, all_subtitles[i].start - clip_start)
                 /\ e.end = Min2(dur, all_subtitles[i].end - clip_start)

C2_Witness ==
    /\ pc = "done"
    /\ Len(all_subtitles) = 2
    /\ all_subtitles[1].end < all_subtitles[1].start
    /\ Len(clip_subtitles) = 1
    /\ all_subtitles[2].start < clip_start
    /\ all_subtitles[2].end > clip_end
    /\ clip_subtitles[1].start = 0
    /\ clip_subtitles[1].end = clip_end - clip_start

\* C3: for a window with end > start and a parsed entry with end > start, the
\* clipping loop emits a clipped entry for that entry if and only if
\* entry.end > window.start and entry.start < window.end; so an entry that
\* only touches the window is dropped and the duration guard removes no entry
\* that overlaps.
C3_EmittedIffOverlaps ==
    [][ (/\ pc = "filter"
         /\ filter_pos < Len(all_subtitles)
         /\ clip_end > clip_start
         /\ all_subtitles[filter_pos + 1].end > all_subtitles[filter_pos + 1].start)
        => LET sub     == all_subtitles[filter_pos + 1]
               emitted == Len(clip_subtitles') = Len(clip_subtitles) + 1
               none    == clip_subtitles' = clip_subtitles
           IN  /\ emitted \/ none
               /\ emitted <=> (sub.end > clip_start /\ sub.start < clip_end)
               /\ emitted => clip_subtitles'[Len(clip_subtitles')].text = sub.text
      ]_vars

C3_Witness ==
    /\ pc = "filter"
    /\ filter_pos = 2
    /\ clip_end > clip_start
    /\ \A i \in 1..2 : all_subtitles[i].end > all_subtitles[i].start
    /\ all_subtitles[1].end = clip_start
    /\ all_subtitles[2].start < clip_start
    /\ all_subtitles[2].end > clip_start
    /\ Len(clip_subtitles) = 1
    /\ clip_subtitles[1].text = all_subtitles[2].text

\* The clipped entries the clip-building loop renders.
Rendered == SelectSeq(clip_subtitles, LAMBDA e : FitsVideo(e, video_duration))

WordCount(e) == Len(SplitWords(e.text))

CaptionCount(e) == (WordCount(e) + 4) \div 5

RECURSIVE ClipsBefore(_, _)
ClipsBefore(entries, i) ==
    IF i <= 1 THEN 0
    ELSE ClipsBefore(entries, i - 1) + CaptionCount(entries[i - 1]) + WordCount(entries[i - 1])

\* C6 as amended: the clip list handed to the compositor is in insertion
\* order: the rendered entries in clipped-entry order, each contributing all
\* its caption segments (starts ascending from entry.start) directly followed
\* by all its highlight segments (starts ascending from entry.start), every
\* segment inside the entry's interval.
C6_TimelineInsertionOrder ==
    (pc = "done" /\ outcome = "composited")
    => LET R == Rendered
       IN  /\ Len(subtitle_clips) = ClipsBefore(R, Len(R) + 1)
           /\ \A i \in 1..Len(R) :
                LET off  == ClipsBefore(R, i)
                    ncap == CaptionCount(R[i])
                IN  \A k \in 1..(ncap + WordCount(R[i])) :
                      LET c == subtitle_clips[off + k]
                      IN  /\ c.layer = IF k <= ncap THEN "caption" ELSE "highlight"
                          /\ RatLE(Rat(R[i].start, 1), c.start)
                          /\ RatLE(ClipEnd(c), Rat(R[i].end, 1))
                          /\ IF k \in {1, ncap + 1}
                             THEN RatEq(c.start, Rat(R[i].start, 1))
                             ELSE RatLT(subtitle_clips[off + k - 1].start, c.start)

C6_Witness ==
    /\ pc = "done"
    /\ outcome = "composited"
    /\ Len(clip_subtitles) = 2
    /\ clip_subtitles[1].start > clip_subtitles[2].start
    /\ WordCount(clip_subtitles[2]) = 6
    /\ Len(subtitle_clips) = 11
    /\ subtitle_clips[5].layer = "caption"
    /\ subtitle_clips[6].layer = "highlight"
    /\ RatLT(subtitle_clips[6].start, subtitle_clips[5].start)

\* C6 as stated: the clip list handed to the compositor is ordered by start
\* time, a caption segment before a highlight segment of equal start.
C6_TimelineSortedByStart ==
    (pc = "done" /\ outcome = "composited")
    => \A j, k \in 1..Len(subtitle_clips) :
         j < k => \/ RatLT(subtitle_clips[j].start, subtitle_clips[k].start)
                  \/ /\ RatEq(subtitle_clips[j].start, subtitle_clips[k].start)
                     /\ ~(subtitle_clips[j].layer = "highlight"
                          /\ subtitle_clips[k].layer = "caption")

\* C7: a window with end <= start ends the call with an error raised to the
\* caller, never with a normal return.
C7_InvalidWindowRaises ==
    (pc = "done" /\ WindowDecodes
       /\ time_to_seconds(clip_data.end).val <= time_to_seconds(clip_data.start).val)
    => outcome = "error"

\* C8: with a decodable window, a transcript without any valid block, or a
\* window with end > start that no parsed entry overlaps, ends the call with
\* the video written without subtitles: no error and no clip in the list.
C8_NothingToShowIsNotAnError ==
    (/\ pc = "done"
     /\ WindowDecodes
     /\ \/ \A i \in 1..Len(track) : track[i].kind \notin MatchingKinds
        \/ /\ clip_end > clip_start
           /\ \A i \in 1..Len(all_subtitles) :
                ~(all_subtitles[i].end > clip_start /\ all_subtitles[i].start < clip_end))
    => outcome = "without_subtitles" /\ subtitle_clips = <<>>

C8_Witness ==
    /\ pc = "done"
    /\ clip_end > clip_start
    /\ Len(all_subtitles) = 2
    /\ \A i \in 1..2 : all_subtitles[i].end > all_subtitles[i].start
    /\ all_subtitles[1].start = clip_end
    /\ all_subtitles[2].end = clip_start
    /\ filter_pos = 2
    /\ outcome = "without_subtitles"

---------------------------------------------------------------------------
(* Further properties of parse_srt_file (SpecParse) and of the word        *)
(* highlighter (SpecClips).                                                *)

\* C11: every entry parse_srt_file returns has end > start and a non-empty
\* text, whatever the (syntactically valid) timecodes of its block are.
C11_EntriesWellFormed ==
    pc = "parsed"
    => \A k \in 1..Len(all_subtitles) :
         /\ all_subtitles[k].end > all_subtitles[k].start
         /\ all_subtitles[k].text # <<>>

---------------------------------------------------------------------------
(* Further properties of add_interactive_subtitles_with_timing (Spec).     *)

\* The caption layer of the clip list.
Captions == SelectSeq(subtitle_clips, LAMBDA c : c.layer = "caption")

Highlights == SelectSeq(subtitle_clips, LAMBDA c : c.layer = "highlight")

\* The worked example has run to its end on a video that holds the entry.
ScenarioDone ==
    /\ pc = "done"
    /\ clip_data = ScenarioClipFile
    /\ track = <<ScenarioBlock>>
    /\ video_duration >= 6000

\* C13 as amended: the worked example yields exactly two caption segments,
\* "This is a test sentence" spanning [2.0, 5.333...) (5/6 of the 4 seconds,
\* ending at 16/3 s) and "here" spanning [5.333..., 6.0).
C13_ScenarioCaptions ==
    ScenarioDone
    => LET c == Captions
       IN  /\ Len(c) = 2
           /\ c[1].text = SubSeq(ScenarioText, 1, 23)
           /\ RatEq(c[1].start, Rat(2000, 1))
           /\ RatEq(ClipEnd(c[1]), Rat(16000, 3))
           /\ c[2].text = SubSeq(ScenarioText, 25, 28)
           /\ RatEq(c[2].start, Rat(16000, 3))
           /\ RatEq(ClipEnd(c[2]), Rat(6000, 1))

C13_Witness ==
    /\ ScenarioDone
    /\ outcome = "composited"
    /\ clip_subtitles = << [start |-> 2000, end |-> 6000, text |-> ScenarioText] >>
    /\ Len(subtitle_clips) = 8

\* C13 as stated: the two caption segments span [2.0, 5.6) and [5.6, 6.0).
C13_ScenarioCaptionsAsStated ==
    ScenarioDone
    => LET c == Captions
       IN  /\ Len(c) = 2
           /\ c[1].text = SubSeq(ScenarioText, 1, 23)
           /\ RatEq(c[1].start, Rat(2000, 1))
           /\ RatEq(ClipEnd(c[1]), Rat(5600, 1))
           /\ c[2].text = SubSeq(ScenarioText, 25, 28)
           /\ RatEq(c[2].start, Rat(5600, 1))
           /\ RatEq(ClipEnd(c[2]), Rat(6000, 1))

\* The clipped entries that end within the video.
EndsInVideo == SelectSeq(clip_subtitles, LAMBDA e : e.end <= video_duration)

RECURSIVE TotalOf(_, _)
TotalOf(Count(_), entries) ==
    IF entries = <<>> THEN 0 ELSE Count(Head(entries)) + TotalOf(Count, Tail(entries))

\* C15: every caption and highlight segment of the composed clip list
\* satisfies 0 <= start < end <= min(window.duration, video.duration); a
\* clipped entry whose end exceeds the video's duration contributes nothing
\* (it is not truncated), and every other clipped entry contributes both its
\* caption segments and its highlight segments.
C15_SegmentsInsideWindowAndVideo ==
    pc = "done"
    => /\ \A k \in 1..Len(subtitle_clips) :
            LET c == subtitle_clips[k]
            IN  /\ RatLE(Rat(0, 1), c.start)
                /\ RatLT(c.start, ClipEnd(c))
                /\ RatLE(ClipEnd(c), Rat(Min2(clip_end - clip_start, video_duration), 1))
       /\ Len(Captions) = TotalOf(CaptionCount, EndsInVideo)
       /\ Len(Highlights) = TotalOf(WordCount, EndsInVideo)
       /\ \A i \in 1..Len(EndsInVideo) :
            /\ \E k \in 1..Len(subtitle_clips) :
                 /\ subtitle_clips[k].layer = "caption"
                 /\ RatEq(subtitle_clips[k].start, Rat(EndsInVideo[i].start, 1))
            /\ \E k \in 1..Len(subtitle_clips) :
                 /\ subtitle_clips[k].layer = "highlight"
                 /\ RatEq(ClipEnd(subtitle_clips[k]), Rat(EndsInVideo[i].end, 1))

C15_Witness ==
    /\ pc = "done"
    /\ outcome = "composited"
    /\ Len(clip_subtitles) = 2
    /\ clip_subtitles[1].start < video_duration
    /\ clip_subtitles[1].end > video_duration
    /\ clip_subtitles[2].end <= video_duration
    /\ Len(Captions) = 1
    /\ Len(Highlights) = 2

---------------------------------------------------------------------------
(* Properties of the timestamp codec, checked under SpecCodec.             *)

Decoded == pc = "returned" /\ ret.fn \in {"time_to_seconds", "timestamp_to_seconds"}

IsDigitsOfWidth(chars, w) == Len(chars) = w /\ \A i \in 1..Len(chars) : IsDigit(chars[i])

\* The string is HH:MM:SS (window format) or HH:MM:SS,mmm (track format).
FixedWidth ==
    /\ Len(call.fields) = 3
    /\ \A i \in 1..3 : IsDigitsOfWidth(call.fields[i].chars, 2)
    /\ IF call.fmt = "window" THEN call.tail = <<>>
       ELSE Len(call.tail) = 1 /\ IsDigitsOfWidth(call.tail[1].chars, 3)

\* The string has three ":" fields (and, in the track format, one "," field
\* after them), each of them an integer for int().
ThreeIntegers ==
    /\ Len(call.fields) = 3
    /\ \A i \in 1..3 : call.fields[i].numeric
    /\ IF call.fmt = "window" THEN call.tail = <<>>
       ELSE Len(call.tail) = 1 /\ call.tail[1].numeric

\* What the decoders do: a string decodes exactly when it is three ":"
\* fields (and, in the track format, one "," field after them) that int()
\* takes, whatever their width or sign, to h*3600 + m*60 + s (+ ms/1000).
DecodesExactlyThreeIntegers ==
    Decoded
    => /\ ret.ok <=> ThreeIntegers
       /\ ret.ok =>
            ret.val = (call.fields[1].value * 3600 + call.fields[2].value * 60
                         + call.fields[3].value) * 1000
                      + (IF call.fmt = "track" THEN call.tail[1].value ELSE 0)

\* C12: decoding fails for every string that does not match the fixed-width
\* pattern HH:MM:SS (window format) or HH:MM:SS,mmm (track format): missing
\* separators, non-numeric fields and wrong field widths are all rejected.
C12_RejectsAllButFixedWidth == (Decoded /\ ~FixedWidth) => ~ret.ok

---------------------------------------------------------------------------
(* The clip file handed from suggest_clip to the subtitle stage, checked   *)
(* under SpecSuggest.                                                      *)

\* What does hold: a saved suggestion that has both keys, each written as
\* HH:MM:SS, decodes to a window of 15 to 120 seconds.
ClockSuggestionDecodes ==
    (/\ pc = "decoded"
     /\ {"start", "end"} \subseteq clip_data.keys
     /\ \E a, b \in SuggestedSeconds :
            clip_data.start = ClockText(a) /\ clip_data.end = ClockText(b))
    => /\ outcome = "loaded"
       /\ clip_end - clip_start >= MinClipSeconds * 1000
       /\ clip_end - clip_start <= MaxClipSeconds * 1000

\* C16: every clip file that suggest_clip saves is decoded by the subtitle
\* stage without raising, to a window with end > start and a length of 15 to
\* 120 seconds, whatever shape of suggestion validate_timestamps accepted.
C16_PersistedDecodes ==
    pc = "decoded"
    => /\ outcome = "loaded"
       /\ clip_end > clip_start
       /\ clip_end - clip_start >= MinClipSeconds * 1000
       /\ clip_end - clip_start <= MaxClipSeconds * 1000

=============================================================================
